---- MODULE Spec2Model ----
(***************************************************************************)
(* ModelVersion (src/zenml/model/model_version.py): the client-side facade *)
(* that lazily gets or creates a model and a model version in the metadata *)
(* store (the "Model Control Plane").                                      *)
(*                                                                         *)
(* State: the store (models and model versions), one ModelVersion object   *)
(* (`self`), `last`, a record of the last operation called on the object   *)
(* (what was called, what it returned or raised, and the state it was      *)
(* called in), and `history`, what the object's operations created and     *)
(* resolved so far.  Every public operation of the object is one action.   *)
(*                                                                         *)
(* Python values are tagged records, so that None, 0, 1 and "1" stay       *)
(* distinct; strings that the code inspects (version names) are sequences  *)
(* of characters, so that str(), isnumeric() and lower() are computed.     *)
(***************************************************************************)
EXTENDS Integers, Sequences, FiniteSets, TLC

VARIABLES store, self, last, history

vars == <<store, self, last, history>>

----------------------------------------------------------------------------
(* Bounds of the model *)

\* version numbers (and digit strings) the object may be configured with: -1..MaxNumber
MaxNumber == 2

\* model versions the store holds for the object's model before the object is used
MaxInitVersions == 1

\* steps of the pipeline run visible in a step context
MaxSteps == 1

\* model versions the store may hold before operations stop being called
MaxVersions == 5

----------------------------------------------------------------------------
(* Python values *)

None == [t |-> "None"]

IntV(n) == [t |-> "int", n |-> n]

StrV(s) == [t |-> "str", s |-> s]

\* a UUID; ids are drawn from the naturals
IdV(i) == [t |-> "uuid", id |-> i]

\* bool(v): None, 0 and "" are falsy
Truthy(v) ==
    CASE v.t = "None" -> FALSE
      [] v.t = "int" -> v.n # 0
      [] v.t = "str" -> v.s # <<>>
      [] OTHER -> TRUE

DigitChars == <<"0", "1", "2", "3", "4", "5", "6", "7", "8", "9">>

UpperChars ==
    <<"A", "B", "C", "D", "E", "F", "G", "H", "I", "J", "K", "L", "M",
      "N", "O", "P", "Q", "R", "S", "T", "U", "V", "W", "X", "Y", "Z">>

LowerChars ==
    <<"a", "b", "c", "d", "e", "f", "g", "h", "i", "j", "k", "l", "m",
      "n", "o", "p", "q", "r", "s", "t", "u", "v", "w", "x", "y", "z">>

RECURSIVE NatStr(_)
NatStr(n) ==
    IF n < 10 THEN <<DigitChars[n + 1]>>
    ELSE NatStr(n \div 10) \o <<DigitChars[(n % 10) + 1]>>

\* str(n) of an int
IntStr(n) == IF n < 0 THEN <<"-">> \o NatStr(0 - n) ELSE NatStr(n)

\* str(v): the characters of str(self.version)
Str(v) ==
    CASE v.t = "None" -> <<"N", "o", "n", "e">>
      [] v.t = "int" -> IntStr(v.n)
      [] v.t = "str" -> v.s

\* s.isnumeric(): non-empty and every character a digit
IsNumeric(s) ==
    /\ Len(s) > 0
    /\ \A i \in 1..Len(s) : \E d \in 1..10 : DigitChars[d] = s[i]

\* s.lower()
Lower(s) ==
    [i \in 1..Len(s) |->
        IF \E k \in 1..26 : UpperChars[k] = s[i]
        THEN LowerChars[CHOOSE k \in 1..26 : UpperChars[k] = s[i]]
        ELSE s[i]]

RECURSIVE ParseInt(_)
\* int(s) of a digit string
ParseInt(s) ==
    IF Len(s) = 0 THEN 0
    ELSE 10 * ParseInt(SubSeq(s, 1, Len(s) - 1))
         + ((CHOOSE d \in 1..10 : DigitChars[d] = s[Len(s)]) - 1)

----------------------------------------------------------------------------
(* ModelStages *)

STAGE_NONE == <<"n", "o", "n", "e">>

STAGING == <<"s", "t", "a", "g", "i", "n", "g">>

PRODUCTION == <<"p", "r", "o", "d", "u", "c", "t", "i", "o", "n">>

ARCHIVED == <<"a", "r", "c", "h", "i", "v", "e", "d">>

\* ModelStages.values()
ModelStagesValues == {STAGE_NONE, STAGING, PRODUCTION, ARCHIVED}

----------------------------------------------------------------------------
(* The metadata store (zen_store).  A model is [id, name, meta]; a model    *)
(* version is [id, model, name, number, stage], `model` the id of its       *)
(* model, `name` a string, `stage` None or a string.                        *)

KeyError == [t |-> "KeyError"]

Max(S) == CHOOSE x \in S : \A y \in S : y <= x

\* a UUID no record of the store has
FreshId(st) ==
    1 + Max({0} \cup {m.id : m \in st.models} \cup {x.id : x \in st.versions})

\* zen_store.get_model(model_name_or_id=name): the model, or KeyError
StoreGetModel(st, name) ==
    IF \E m \in st.models : m.name = name
    THEN CHOOSE m \in st.models : m.name = name
    ELSE KeyError

\* zen_store.create_model(model=req): EntityExistsError if the name is taken
StoreCreateModel(st, req) ==
    IF \E m \in st.models : m.name = req.name
    THEN [store |-> st, raised |-> "EntityExistsError", model |-> KeyError]
    ELSE LET m == [id |-> FreshId(st), name |-> req.name, meta |-> req.meta]
         IN [store |-> [st EXCEPT !.models = @ \cup {m}],
             raised |-> "", model |-> m]

\* the versions of model m that `v` designates: by number when str(v) is
\* numeric, by stage when it is a stage name, by name otherwise
Matching(st, m, v) ==
    LET s == Str(v)
    IN {x \in st.versions :
          /\ x.model = m.id
          /\ IF IsNumeric(s) THEN x.number = ParseInt(s)
             ELSE IF s \in ModelStagesValues THEN x.stage = StrV(s)
             ELSE x.name = s}

\* zen_store.get_model_version(name, v): the version, or KeyError
StoreGetModelVersion(st, name, v) ==
    LET m == StoreGetModel(st, name)
    IN IF m = KeyError THEN KeyError
       ELSE LET c == Matching(st, m, v)
            IN IF c = {} THEN KeyError
               ELSE CHOOSE x \in c : \A y \in c : y.number <= x.number

\* zen_store.create_model_version(req): the next number of the model; the
\* name of the request, or str(number) when the request names none
StoreCreateModelVersion(st, req) ==
    LET mine == {x \in st.versions : x.model = req.model}
        number == 1 + Max({0} \cup {x.number : x \in mine})
        name == IF req.name = None THEN IntStr(number) ELSE req.name.s
        mv == [id |-> FreshId(st), model |-> req.model, name |-> name,
               number |-> number, stage |-> None]
    IN IF \E x \in mine : x.name = name
       THEN [store |-> st, raised |-> "EntityExistsError", mv |-> KeyError]
       ELSE [store |-> [st EXCEPT !.versions = @ \cup {mv}],
             raised |-> "", mv |-> mv]

\* ModelVersionResponseModel.set_stage(stage, force): the version takes the
\* stage; a version of the model already in it is archived with force, and
\* is an error without
StoreSetStage(st, mv, stage, force) ==
    LET holders == {x \in st.versions :
                      x.model = mv.model /\ x.id # mv.id /\ x.stage = StrV(stage)}
        exclusive == stage \in {STAGING, PRODUCTION}
        Moved(x) == IF x.id = mv.id THEN [x EXCEPT !.stage = StrV(stage)]
                    ELSE IF exclusive /\ x \in holders
                         THEN [x EXCEPT !.stage = StrV(ARCHIVED)]
                    ELSE x
    IN IF holders # {} /\ exclusive /\ ~force
       THEN [store |-> st, raised |-> "RuntimeError"]
       ELSE [store |-> [st EXCEPT !.versions = {Moved(x) : x \in st.versions}],
             raised |-> ""]

----------------------------------------------------------------------------
(* ModelVersion.  The object is the record                                  *)
(*   [name, meta, version, was_created_in_this_run, _model_id, _id,         *)
(*    _number]                                                              *)
(* `meta` standing for license, description, audience, use_cases,           *)
(* limitations, trade_offs, ethics and tags together.                       *)

\* get_step_context() outside a step
NoContext == [t |-> "RuntimeError"]

\* ModelRequestModel(name=self.name, license=self.license, ...)
ModelRequest(slf) == [name |-> slf.name, meta |-> slf.meta]

\* ModelVersionRequestModel(name=self.version, description=..., model=model.id):
\* `name` is an optional string field, so a number is stored as its digits
ModelVersionRequest(slf, model) ==
    [name |-> IF slf.version = None THEN None ELSE StrV(Str(slf.version)),
     description |-> slf.meta,
     model |-> model.id]

\* the `except KeyError` branch of _get_or_create_model: create_model, an
\* EntityExistsError passed over, and in any case get_model again
CreateThenGetModel(slf, cr) ==
    [self |-> [slf EXCEPT !._model_id =
                              IdV(StoreGetModel(cr.store, slf.name).id)],
     store |-> cr.store,
     model |-> StoreGetModel(cr.store, slf.name),
     create_called |-> TRUE]

\* self._model_id = model.id; return model
ReturnModel(slf, st, model) ==
    [self |-> [slf EXCEPT !._model_id = IdV(model.id)],
     store |-> st, model |-> model, create_called |-> FALSE]

\* a _get_or_create_model that creates first and gets afterwards, whatever
\* the store holds
GetOrCreateModel_CreateFirst(slf, st) ==
    CreateThenGetModel(slf, StoreCreateModel(st, ModelRequest(slf)))

\* _get_or_create_model: [self, store, model] and, for the record of the
\* call, whether create_model was called
GetOrCreateModel(slf, st) ==
    IF StoreGetModel(st, slf.name) # KeyError
    THEN ReturnModel(slf, st, StoreGetModel(st, slf.name))
    ELSE CreateThenGetModel(slf, StoreCreateModel(st, ModelRequest(slf)))

\* _get_model_version: zen_store.get_model_version(self.name, self.version)
GetModelVersion(slf, st) == StoreGetModelVersion(st, slf.name, slf.version)

\* whether a config of the run names this model and created its version in this run
CreatedInRun(cfg, slf) ==
    /\ cfg # None
    /\ cfg.was_created_in_this_run
    /\ cfg.name = slf.name

\* `if not self.version:` ... : self.version after the look into the step
\* context: the pipeline's model version, else the first step's that matches
ContextVersion(slf, ctx) ==
    IF Truthy(slf.version) \/ ctx = NoContext THEN slf.version
    ELSE IF CreatedInRun(ctx.pipeline_mv, slf) THEN ctx.pipeline_mv.version
    ELSE LET hits == {i \in 1..Len(ctx.steps) : CreatedInRun(ctx.steps[i], slf)}
         IN IF hits = {} THEN slf.version
            ELSE ctx.steps[CHOOSE i \in hits : \A j \in hits : i <= j].version

\* the two tests of the `except KeyError` branch: the name is a stage name
\* (lower-cased) or numeric
IsReservedName(version) ==
    \/ Truthy(version) /\ Lower(Str(version)) \in ModelStagesValues
    \/ IsNumeric(Str(version))

\* the three assignments without `self._number = model_version.number`
SetIds_NoNumber(slf, mv) ==
    [slf EXCEPT !._id = IdV(mv.id),
                !._model_id = IdV(mv.model)]

\* self._id, self._model_id, self._number from the model version
SetIds(slf, mv) ==
    [slf EXCEPT !._id = IdV(mv.id),
                !._model_id = IdV(mv.model),
                !._number = IntV(mv.number)]

\* the creation without `self.was_created_in_this_run = True`
Created_NotFlagged(slf, cr) ==
    IF cr.raised # ""
    THEN [self |-> slf, store |-> cr.store, raised |-> cr.raised, mv |-> KeyError]
    ELSE [self |-> SetIds([slf EXCEPT !.version = StrV(cr.mv.name)], cr.mv),
          store |-> cr.store, raised |-> "", mv |-> cr.mv]

\* the creation without `self.version = model_version.name`
Created_VersionNotKept(slf, cr) ==
    IF cr.raised # ""
    THEN [self |-> slf, store |-> cr.store, raised |-> cr.raised, mv |-> KeyError]
    ELSE [self |-> SetIds([slf EXCEPT !.was_created_in_this_run = TRUE], cr.mv),
          store |-> cr.store, raised |-> "", mv |-> cr.mv]

\* self.version = model_version.name; self.was_created_in_this_run = True
\* after create_model_version returned cr (an error of the store propagates)
Created(slf, cr) ==
    IF cr.raised # ""
    THEN [self |-> slf, store |-> cr.store, raised |-> cr.raised, mv |-> KeyError]
    ELSE [self |-> SetIds([slf EXCEPT !.version = StrV(cr.mv.name),
                                      !.was_created_in_this_run = TRUE],
                          cr.mv),
          store |-> cr.store, raised |-> "", mv |-> cr.mv]

\* the body of _get_or_create_model_version after the step context was
\* looked into: slf is the object then, mv_request the request built before,
\* fetched what `self._get_model_version()` gave (KeyError when it raised or
\* was not called)
FetchedOrCreated(slf, st, mv_request, fetched) ==
    IF fetched # KeyError
    THEN [self |-> SetIds(slf, fetched), store |-> st, raised |-> "",
          mv |-> fetched]
    ELSE IF IsReservedName(slf.version)
    THEN [self |-> slf, store |-> st, raised |-> "ReservedNameError",
          mv |-> KeyError]
    ELSE Created(slf, StoreCreateModelVersion(st, mv_request))

\* `if self.version: model_version = self._get_model_version()
\*  else: raise KeyError`
Fetch(slf, st) ==
    IF Truthy(slf.version) THEN GetModelVersion(slf, st) ELSE KeyError

\* _get_or_create_model_version after `model = self._get_or_create_model()`
\* returned gm; slf is the object before the call, s1 the object after the
\* look into the step context
ResolveIn(slf, gm, s1) ==
    [call |-> FetchedOrCreated(s1, gm.store,
                               ModelVersionRequest(slf, gm.model),
                               Fetch(s1, gm.store)),
     model |-> gm.model,
     create_model_called |-> gm.create_called]

\* _get_or_create_model_version: [call: [self, store, raised, mv]] and, for
\* the record of the call, the model and whether create_model was called
GetOrCreateModelVersion(slf, st, ctx) ==
    ResolveIn(slf, GetOrCreateModel(slf, st),
              [GetOrCreateModel(slf, st).self
                  EXCEPT !.version = ContextVersion(slf, ctx)])

----------------------------------------------------------------------------
(* The states the object is constructed in *)

\* self.name, and the name of another model of the store
ObjName == "model_a"

OtherName == "model_b"

\* names users give to model versions: one the store may hold, one it never does
StoredName == <<"v", "1">>

UserNames == {StoredName, <<"r", "c">>}

MixedCaseStage == <<"S", "t", "a", "g", "i", "n", "g">>

\* the values of `version`: unset, a number (0 and a negative one included),
\* a digit string, a stage, a name.  Names are non-empty: what the store makes
\* of an empty version name is not visible in the source.
Versions ==
    {None}
    \cup {IntV(n) : n \in (0 - 1)..MaxNumber}
    \cup {StrV(IntStr(n)) : n \in 1..MaxNumber}
    \cup {StrV(s) : s \in {STAGING, PRODUCTION, MixedCaseStage} \cup UserNames}

OtherModel == [id |-> 1, name |-> OtherName, meta |-> "theirs"]

OtherVersion ==
    [id |-> 2, model |-> 1, name |-> StoredName, number |-> 1,
     stage |-> StrV(PRODUCTION)]

OwnModel == [id |-> 3, name |-> ObjName, meta |-> "stored"]

\* the versions 1..k of the object's model: numbered in order, named by a
\* user or by their number, no name twice and no stage held twice
Layouts(k) ==
    {f \in [1..k -> [name : {StoredName} \cup {IntStr(i) : i \in 1..k},
                     stage : {None, StrV(STAGING)}]] :
        /\ \A i \in 1..k : IsNumeric(f[i].name) => f[i].name = IntStr(i)
        /\ \A i, j \in 1..k :
              i # j => /\ f[i].name # f[j].name
                       /\ f[i].stage = None \/ f[i].stage # f[j].stage}

OwnVersions(k, f) ==
    {[id |-> 3 + i, model |-> 3, name |-> f[i].name, number |-> i,
      stage |-> f[i].stage] : i \in 1..k}

InitStores ==
    {[models |-> {OtherModel}, versions |-> {OtherVersion}]}
    \cup {[models |-> {OtherModel, OwnModel},
           versions |-> {OtherVersion} \cup OwnVersions(Len(f), f)] :
            f \in UNION {Layouts(k) : k \in 0..MaxInitVersions}}

\* the model versions a run's configs may hold: of another model, not created
\* in this run, or created in this run and so in the store
RunConfigs(st, slf) ==
    {[name |-> OtherName, version |-> StrV(StoredName),
      was_created_in_this_run |-> TRUE],
     [name |-> slf.name, version |-> StrV(PRODUCTION),
      was_created_in_this_run |-> FALSE]}
    \cup {[name |-> slf.name, version |-> StrV(x.name),
           was_created_in_this_run |-> TRUE] :
            x \in {y \in st.versions :
                     \E m \in st.models : m.name = slf.name /\ y.model = m.id}}

\* get_step_context(): none, or the run's pipeline config and step configs.
\* The context is looked into only under `if not self.version`: for any
\* other version one step context stands for all.
Contexts(st, slf) ==
    LET cfgs == IF Truthy(slf.version) THEN {None}
                ELSE RunConfigs(st, slf) \cup {None}
    IN {NoContext}
       \cup {[pipeline_mv |-> p, steps |-> q] :
               p \in cfgs,
               q \in UNION {[1..n -> cfgs] : n \in 0..MaxSteps}}

----------------------------------------------------------------------------
(* The operations *)

NoCall == [called |-> FALSE]

\* the record of a call of _get_or_create_model_version that gave r
ResolutionOf(r) ==
    [called |-> TRUE, raised |-> r.call.raised, mv |-> r.call.mv]

\* the record of a call of _get_or_create_model that gave r
ModelCallOf(r) ==
    [called |-> TRUE, model |-> r.model, create_called |-> r.create_model_called]

Ids(S) == {x.id : x \in S}

\* an operation `op`, called in context ctx, gave p
Called(op, ctx, p) ==
    /\ self' = p.self
    /\ store' = p.store
    /\ last' = [op |-> op, in_step |-> ctx # NoContext, raised |-> p.raised,
                ret |-> p.ret, pre_self |-> self, pre_store |-> store,
                resolution |-> p.resolution, model_call |-> p.model_call]
    /\ history' =
          [models_created |->
              history.models_created \cup (Ids(p.store.models) \ Ids(store.models)),
           versions_created |->
              history.versions_created
                  \cup (Ids(p.store.versions) \ Ids(store.versions)),
           resolved |->
              IF p.resolution.called /\ p.resolution.raised = ""
              THEN history.resolved \cup {p.resolution.mv.id}
              ELSE history.resolved,
           resolved_again |->
              IF p.resolution.called /\ p.resolution.raised = ""
              THEN history.resolved # {}
              ELSE history.resolved_again]

CanCall == Cardinality(store.versions) < MaxVersions

Init ==
    /\ store \in InitStores
    /\ self \in [name : {ObjName}, meta : {"mine"}, version : Versions,
                 was_created_in_this_run : {FALSE},
                 _model_id : {None}, _id : {None}, _number : {None}]
    /\ last = [op |-> "__init__", in_step |-> FALSE, raised |-> "",
               ret |-> None, pre_self |-> self, pre_store |-> store,
               resolution |-> NoCall, model_call |-> NoCall]
    /\ history = [models_created |-> {}, versions_created |-> {},
                  resolved |-> {}, resolved_again |-> FALSE]

\* the operations that are `self._get_or_create_model_version()` and a read
\* of the response
ResolveOps ==
    {"get_model_artifact", "get_data_artifact", "get_endpoint_artifact",
     "get_pipeline_run", "_validate_config_in_runtime"}

\* `return self._get_or_create_model_version().<read>(...)`
Resolved(r) ==
    [self |-> r.call.self, store |-> r.call.store, raised |-> r.call.raised,
     ret |-> None, resolution |-> ResolutionOf(r), model_call |-> ModelCallOf(r)]

\* `try: self._get_or_create_model_version()  except ReservedNameError: log`
\* and the return of the cached attribute
Caught(r, attr) ==
    [self |-> r.call.self, store |-> r.call.store,
     raised |-> IF r.call.raised = "ReservedNameError" THEN "" ELSE r.call.raised,
     ret |-> IF r.call.raised \in {"", "ReservedNameError"}
             THEN r.call.self[attr] ELSE None,
     resolution |-> ResolutionOf(r), model_call |-> ModelCallOf(r)]

\* `return self._id` with no call of the store
Cached(slf, st, attr) ==
    [self |-> slf, store |-> st, raised |-> "", ret |-> slf[attr],
     resolution |-> NoCall, model_call |-> NoCall]

\* the property `id`
IdProperty(slf, st, ctx) ==
    IF slf._id = None
    THEN Caught(GetOrCreateModelVersion(slf, st, ctx), "_id")
    ELSE Cached(slf, st, "_id")

\* the property `number`
NumberProperty(slf, st, ctx) ==
    IF slf._number = None
    THEN Caught(GetOrCreateModelVersion(slf, st, ctx), "_number")
    ELSE Cached(slf, st, "_number")

\* the body of the property `stage` after the call gave r
StageOf(r) ==
    [self |-> r.call.self, store |-> r.call.store,
     raised |-> IF r.call.raised = "ReservedNameError" THEN "" ELSE r.call.raised,
     ret |-> IF r.call.raised = "" /\ Truthy(r.call.mv.stage)
             THEN r.call.mv.stage ELSE None,
     resolution |-> ResolutionOf(r), model_call |-> ModelCallOf(r)]

\* the property `stage`
StageProperty(slf, st, ctx) == StageOf(GetOrCreateModelVersion(slf, st, ctx))

\* `self._get_or_create_model()` gave gm: the return of `model_id`
ModelIdOf(gm) ==
    [self |-> gm.self, store |-> gm.store, raised |-> "",
     ret |-> gm.self._model_id, resolution |-> NoCall,
     model_call |-> [called |-> TRUE, model |-> gm.model,
                     create_called |-> gm.create_called]]

\* the property `model_id`
ModelIdProperty(slf, st) ==
    IF slf._model_id = None
    THEN ModelIdOf(GetOrCreateModel(slf, st))
    ELSE Cached(slf, st, "_model_id")

\* `self._get_or_create_model()` gave gm: its `.versions`
VersionsOf(gm) ==
    [self |-> gm.self, store |-> gm.store, raised |-> "",
     ret |-> [t |-> "list",
              ids |-> Ids({x \in gm.store.versions : x.model = gm.model.id})],
     resolution |-> NoCall,
     model_call |-> [called |-> TRUE, model |-> gm.model,
                     create_called |-> gm.create_called]]

\* the property `all_model_versions`
AllModelVersionsProperty(slf, st) == VersionsOf(GetOrCreateModel(slf, st))

\* `self._get_or_create_model_version()` gave r: its set_stage(stage, force)
StageSet(r, moved) ==
    [self |-> r.call.self,
     store |-> IF r.call.raised = "" THEN moved.store ELSE r.call.store,
     raised |-> IF r.call.raised = "" THEN moved.raised ELSE r.call.raised,
     ret |-> None, resolution |-> ResolutionOf(r), model_call |-> ModelCallOf(r)]

StageSetOf(r, stage, force) ==
    StageSet(r, StoreSetStage(r.call.store, r.call.mv, stage, force))

\* set_stage(stage, force)
SetStageMethod(slf, st, ctx, stage, force) ==
    StageSetOf(GetOrCreateModelVersion(slf, st, ctx), stage, force)

Resolve(op, ctx) ==
    /\ CanCall
    /\ Called(op, ctx, Resolved(GetOrCreateModelVersion(self, store, ctx)))

Id(ctx) ==
    /\ CanCall
    /\ Called("id", ctx, IdProperty(self, store, ctx))

Number(ctx) ==
    /\ CanCall
    /\ Called("number", ctx, NumberProperty(self, store, ctx))

Stage(ctx) ==
    /\ CanCall
    /\ Called("stage", ctx, StageProperty(self, store, ctx))

ModelId == Called("model_id", NoContext, ModelIdProperty(self, store))

AllModelVersions ==
    Called("all_model_versions", NoContext, AllModelVersionsProperty(self, store))

SetStage(ctx, stage, force) ==
    /\ CanCall
    /\ Called("set_stage", ctx, SetStageMethod(self, store, ctx, stage, force))

Next ==
    \/ \E op \in ResolveOps, ctx \in Contexts(store, self) : Resolve(op, ctx)
    \/ \E ctx \in Contexts(store, self) : Id(ctx)
    \/ \E ctx \in Contexts(store, self) : Number(ctx)
    \/ \E ctx \in Contexts(store, self) : Stage(ctx)
    \/ ModelId
    \/ AllModelVersions
    \/ \E ctx \in Contexts(store, self),
          stage \in {STAGING, ARCHIVED}, force \in BOOLEAN :
            SetStage(ctx, stage, force)

Spec == Init /\ [][Next]_vars

----------------------------------------------------------------------------
(* Properties *)

\* the last operation was a call of _get_or_create_model_version whose
\* return left the object and the store as they are now
Returned ==
    /\ last.op \in ResolveOps \cup {"id", "number", "stage"}
    /\ last.resolution.called

Named(st, name) == {m \in st.models : m.name = name}

\* C1: _get_or_create_model returns the store's model named self.name and
\* never calls create_model when the store holds one; creates it with this
\* object's name and metadata when not; on return _model_id is the id of
\* the store's model of that name, and the store holds exactly one.
C1_GetOrCreateModel ==
    last.model_call.called =>
        LET had == Named(last.pre_store, self.name)
            has == Named(store, self.name)
            call == last.model_call
        IN /\ had # {} =>
                /\ ~call.create_called
                /\ call.model \in had
                /\ store.models = last.pre_store.models
           /\ had = {} =>
                /\ call.create_called
                /\ call.model.name = self.name
                /\ call.model.meta = self.meta
                /\ call.model.id \notin Ids(last.pre_store.models)
                /\ store.models = last.pre_store.models \cup {call.model}
           /\ has = {call.model}
           /\ self._model_id = IdV(call.model.id)

\* C1's case: model_id created the model
C1_Witness ==
    /\ last.op = "model_id"
    /\ last.model_call.called
    /\ last.model_call.create_called
    /\ Named(last.pre_store, self.name) = {}

\* the name is reserved: a stage name, compared in lower case, or numeric
Reserved(v) ==
    \/ Lower(Str(v)) \in ModelStagesValues
    \/ IsNumeric(Str(v))

\* the store holds no version of the model `name` that v designates
NoMatch(st, name, v) == StoreGetModelVersion(st, name, v) = KeyError

\* C2's case: `version` unset outside any step context, or a string that is
\* not reserved and that the store does not have for the model
C2_Case ==
    /\ Returned
    /\ \/ last.pre_self.version = None /\ ~last.in_step
       \/ /\ last.pre_self.version.t = "str"
          /\ ~Reserved(last.pre_self.version)
          /\ NoMatch(last.pre_store, self.name, last.pre_self.version)

C3_Case ==
    /\ Returned
    /\ last.pre_self.version # None
    /\ ~NoMatch(last.pre_store, self.name, last.pre_self.version)

\* C3: in that case the version the store finds is returned and nothing is
\* created: the store, self.version and was_created_in_this_run are
\* unchanged, and _id, _number, _model_id are those of the fetched record.
C3_FetchesExisting ==
    C3_Case =>
        LET mv == StoreGetModelVersion(last.pre_store, self.name,
                                       last.pre_self.version)
        IN /\ last.resolution.raised = ""
           /\ last.resolution.mv = mv
           /\ ~last.model_call.create_called
           /\ store = last.pre_store
           /\ self.version = last.pre_self.version
           /\ self.was_created_in_this_run = last.pre_self.was_created_in_this_run
           /\ self._id = IdV(mv.id)
           /\ self._number = IntV(mv.number)
           /\ self._model_id = IdV(mv.model)

\* C3's case happened for a version designated by its stage
C3_Witness ==
    /\ C3_Case
    /\ last.pre_self.version = StrV(STAGING)
    /\ last.pre_self._id = None

\* C4's case: the store has no version that `version` designates, and
\* `version` is a stage name or numeric
C4_Case ==
    /\ last.resolution.called
    /\ Reserved(last.pre_self.version)
    /\ last.pre_self.version # None
    /\ NoMatch(last.pre_store, self.name, last.pre_self.version)

\* C4: in that case _get_or_create_model_version raises ReservedNameError
\* and creates no model version; self.version, was_created_in_this_run,
\* _id and _number keep their values.
C4_ReservedNameRaises ==
    C4_Case =>
        /\ last.resolution.raised = "ReservedNameError"
        /\ store.versions = last.pre_store.versions
        /\ self.version = last.pre_self.version
        /\ self.was_created_in_this_run = last.pre_self.was_created_in_this_run
        /\ self._id = last.pre_self._id
        /\ self._number = last.pre_self._number

\* C4, where the code agrees with it: every case but `version` 0 inside a
\* step context
C4_OutsideStepOrNonZero ==
    (C4_Case /\ (Truthy(last.pre_self.version) \/ ~last.in_step))
        => C4_ReservedNameRaises

\* C5: id, number and stage never raise ReservedNameError, and return None
\* when `version` is a stage name or a number that no version of the model
\* matches.
C5_PropertiesReturnNone ==
    last.op \in {"id", "number", "stage"} =>
        /\ last.raised # "ReservedNameError"
        /\ (/\ Reserved(last.pre_self.version)
            /\ last.pre_self.version # None
            /\ NoMatch(last.pre_store, self.name, last.pre_self.version))
           => last.ret = None

\* C5, where the code agrees with it: no ReservedNameError leaves a property,
\* and None is returned when the property had to resolve a version other
\* than 0
C5_NeverRaisesReservedName ==
    last.op \in {"id", "number", "stage"} =>
        /\ last.raised # "ReservedNameError"
        /\ (last.resolution.called /\ Truthy(last.pre_self.version))
           => C5_PropertiesReturnNone

====
